---- MODULE Spec2Model ----
(***************************************************************************)
(* The enthalpy calculator: the steam-table front end (script.js) and the  *)
(* dry-air front end (unnamed/part_000).  A page loads one of the two      *)
(* scripts; both drive the same form and the same statistics panel.        *)
(*                                                                         *)
(* Numbers.  JavaScript numbers are modelled as fixed-point integers:      *)
(*   temperatures and pressures  whole units (deg C, K, kg/cm2G, Pa)       *)
(*   steam enthalpies            1/1000 kJ/kg  (2827.4 is 2827400)         *)
(*   air cp and enthalpies       1/1000 J/(kg K) and 1/1000 J/kg           *)
(*   toFixed(2) texts            1/100 of the displayed unit               *)
(* A division keeps the integer part (\div).  A form value is a number or  *)
(* NaN: [nan |-> TRUE] is what parseFloat gives for an empty or            *)
(* non-numeric field.                                                      *)
(*                                                                         *)
(* The page's markup is not part of the sources: the two fields are taken  *)
(* to start empty and to be emptied by form.reset(), and an element no     *)
(* script has written yet holds the text "markup".  Left out: the theme    *)
(* toggle, the chart's colours and options, and the timer that hides the   *)
(* notification; none of them writes the state modelled here.              *)
(***************************************************************************)
EXTENDS Integers, Sequences, FiniteSets, TLC

VARIABLES
    script,                 \* which script the page loaded
    temperature, pressure,  \* parseFloat of the two form fields
    result,                 \* what calculateEnthalpy last returned or threw (script.js)
    dataPoints,             \* script.js: the history
    enthalpyChart,          \* the Chart instance of either script
    enthalpyData, temperatureDataPoints, pressureDataPoints, timeLabels,
                            \* part_000: the history, four index-aligned arrays
    now,                    \* part_000: the clock read by new Date()
    currentEnthalpyEl, dataPointsEl, avgEnthalpyEl,  \* texts of the statistics panel
    tempError, pressError,  \* style.display of the two field errors
    canvasDisplay, noDataDisplay,  \* style.display of the canvas and the placeholder
    notification            \* the last notification shown

vars == <<script, temperature, pressure, result, dataPoints, enthalpyChart,
          enthalpyData, temperatureDataPoints, pressureDataPoints, timeLabels,
          now, currentEnthalpyEl, dataPointsEl, avgEnthalpyEl, tempError,
          pressError, canvasDisplay, noDataDisplay, notification>>

----------------------------------------------------------------------------
(* Bounds of the model *)

\* most entries a history holds in Spec
MaxHist == 2
\* entries recorded beyond maxDataPoints in SpecWindow
Extra == 5
\* the query range of SpecCalc
MinTemp == 190
MaxTemp == 610
MaxPressure == 100

----------------------------------------------------------------------------
(* JavaScript values *)

NaN == [nan |-> TRUE, v |-> 0]
Num(x) == [nan |-> FALSE, v |-> x]
isNaN(x) == x.nan

\* what an array read past its end gives
Undefined == -1

\* array[i], indexes from 0
at(array, i) == IF i + 1 \in DOMAIN array THEN array[i + 1] ELSE Undefined

Abs(x) == IF x < 0 THEN -x ELSE x

\* texts of the statistics panel: a number, the '-' marker, the text 'NaN',
\* or what the page's markup holds before a script writes the element
Text(n) == [kind |-> "number", v |-> n]
Dash == [kind |-> "-", v |-> 0]
NaNText == [kind |-> "NaN", v |-> 0]
Markup == [kind |-> "markup", v |-> 0]

\* (x).toFixed(2) of a value in thousandths: hundredths, rounded
toFixed2(x) == (x + 5) \div 10

----------------------------------------------------------------------------
(* script.js: the steam table and the estimator *)

Levels == {10, 20, 30, 50, 90}

steamTableData == [p \in Levels |->
    CASE p = 10 -> [temperatures |-> <<200, 250, 300, 350, 400, 450, 500, 550, 600>>,
                    enthalpies |-> <<2827400, 2957200, 3051200, 3157700, 3264500,
                                     3373700, 3486800, 3603400, 3723400>>]
      [] p = 20 -> [temperatures |-> <<212, 250, 300, 350, 400, 450, 500, 550, 600>>,
                    enthalpies |-> <<2799500, 2902500, 3023500, 3137000, 3248400,
                                     3360800, 3475200, 3592200, 3712000>>]
      [] p = 30 -> [temperatures |-> <<234, 250, 300, 350, 400, 450, 500, 550, 600>>,
                    enthalpies |-> <<2803400, 2855800, 2993500, 3115300, 3231600,
                                     3346800, 3462800, 3580400, 3700100>>]
      [] p = 50 -> [temperatures |-> <<264, 300, 350, 400, 450, 500, 550, 600>>,
                    enthalpies |-> <<2794300, 2924500, 3064200, 3196700, 3317200,
                                     3436700, 3556800, 3678200>>]
      [] p = 90 -> [temperatures |-> <<303, 350, 400, 450, 500, 550, 600>>,
                    enthalpies |-> <<2724700, 2957200, 3138300, 3279600, 3410300,
                                     3486000, 3612800>>]]

\* Object.keys(steamTableData).map(Number): integer keys, in ascending order
availablePressures == <<10, 20, 30, 50, 90>>

\* mutant: the division by (x2 - x1) measures from the wrong end
linearInterpolateFromX2(x, x1, x2, y1, y2) ==
    IF x1 = x2 THEN y1
    ELSE y1 + ((x2 - x) * (y2 - y1)) \div (x2 - x1)

linearInterpolate(x, x1, x2, y1, y2) ==
    IF x1 = x2 THEN y1
    ELSE y1 + ((x - x1) * (y2 - y1)) \div (x2 - x1)

\* mutant: <= in place of <, so the last of two equidistant levels wins
RECURSIVE closestFromLastWins(_, _, _, _)
closestFromLastWins(targetPressure, k, closest, minDiff) ==
    IF k > Len(availablePressures) THEN closest
    ELSE LET p == availablePressures[k]
             diff == Abs(targetPressure - p)
         IN  IF diff <= minDiff
             THEN closestFromLastWins(targetPressure, k + 1, p, diff)
             ELSE closestFromLastWins(targetPressure, k + 1, closest, minDiff)

\* the for loop of findClosestPressure, from the k-th level on
RECURSIVE closestFrom(_, _, _, _)
closestFrom(targetPressure, k, closest, minDiff) ==
    IF k > Len(availablePressures) THEN closest
    ELSE LET p == availablePressures[k]
             diff == Abs(targetPressure - p)
         IN  IF diff < minDiff
             THEN closestFrom(targetPressure, k + 1, p, diff)
             ELSE closestFrom(targetPressure, k + 1, closest, minDiff)

findClosestPressure(targetPressure) ==
    closestFrom(targetPressure, 1, availablePressures[1],
                Abs(targetPressure - availablePressures[1]))

\* mutant: < in place of <=, so a sample temperature does not advance i
RECURSIVE bracketFromStrict(_, _, _)
bracketFromStrict(temps, T, i) ==
    IF i < Len(temps) - 1 /\ at(temps, i + 1) < T
    THEN bracketFromStrict(temps, T, i + 1)
    ELSE i

\* mutant: the loop tests temps[i], so i ends one sample too far
RECURSIVE bracketFromOffByOne(_, _, _)
bracketFromOffByOne(temps, T, i) ==
    IF i < Len(temps) - 1 /\ at(temps, i) <= T
    THEN bracketFromOffByOne(temps, T, i + 1)
    ELSE i

\* the while loop of calculateEnthalpy, from index i on
RECURSIVE bracketFrom(_, _, _)
bracketFrom(temps, T, i) ==
    IF i < Len(temps) - 1 /\ at(temps, i + 1) <= T
    THEN bracketFrom(temps, T, i + 1)
    ELSE i

\* mutant: the upper bound is not tested
outOfRangeLowerOnly(temps, T) == T < at(temps, 0)

\* mutant: the lower bound is not tested
outOfRangeUpperOnly(temps, T) == T > at(temps, Len(temps) - 1)

\* the range check of calculateEnthalpy
outOfRange(temps, T) == T < at(temps, 0) \/ T > at(temps, Len(temps) - 1)

NoInterpolation == [T1 |-> 0, T2 |-> 0, h1 |-> 0, h2 |-> 0]
NoError == [temperature |-> 0, closestPressure |-> 0, lo |-> 0, hi |-> 0]
NoResult == [method |-> "none", enthalpy |-> 0, pressureUsed |-> 0,
             interpolationData |-> NoInterpolation, error |-> NoError]

\* method "error" is the thrown Error; its message carries the four values
calculateEnthalpy(T, P) ==
    LET closestPressure == findClosestPressure(P)
        data == steamTableData[closestPressure]
        temps == data.temperatures
        enthalpies == data.enthalpies
    IN  IF outOfRange(temps, T)
        THEN [NoResult EXCEPT !.method = "error",
                !.error = [temperature |-> T, closestPressure |-> closestPressure,
                           lo |-> at(temps, 0), hi |-> at(temps, Len(temps) - 1)]]
        ELSE LET i == bracketFrom(temps, T, 0) IN
             IF at(temps, i) = T
             THEN [NoResult EXCEPT !.method = "exact", !.enthalpy = at(enthalpies, i),
                                   !.pressureUsed = closestPressure]
             ELSE LET T1 == at(temps, i)
                      T2 == at(temps, i + 1)
                      h1 == at(enthalpies, i)
                      h2 == at(enthalpies, i + 1)
                  IN  [NoResult EXCEPT !.method = "interpolated",
                         !.enthalpy = linearInterpolate(T, T1, T2, h1, h2),
                         !.pressureUsed = closestPressure,
                         !.interpolationData = [T1 |-> T1, T2 |-> T2, h1 |-> h1, h2 |-> h2]]

----------------------------------------------------------------------------
(* script.js: the page *)

Note(type, kind) == [type |-> type, kind |-> kind, errors |-> <<>>, value |-> 0,
                     pressureUsed |-> 0, error |-> NoError]
NoChart == [created |-> FALSE, data |-> <<>>]

\* the errors returned, and the display the two error elements are given
validateInputs(temp, press) ==
    LET badTemp == isNaN(temp) \/ temp.v < 0
        badPress == isNaN(press) \/ press.v < 0
    IN  [errors |-> (IF badTemp THEN <<"Temperature must be a positive number">> ELSE <<>>)
                    \o (IF badPress THEN <<"Pressure must be a positive number">> ELSE <<>>),
         tempError |-> IF badTemp THEN "block" ELSE "none",
         pressError |-> IF badPress THEN "block" ELSE "none"]

\* dataPoints.reduce((sum, point) => sum + point.enthalpy, 0)
RECURSIVE sumEnthalpy(_)
sumEnthalpy(points) ==
    IF points = <<>> THEN 0 ELSE points[1].enthalpy + sumEnthalpy(Tail(points))

\* mutant: the '-' marker is lost and the mean divides by one entry too many
updateStatsOffByOne(points) ==
    [count |-> Text(Len(points)),
     avg |-> Text(toFixed2(sumEnthalpy(points) \div (Len(points) + 1)))]

\* the texts updateStats gives the two elements
updateStats(points) ==
    [count |-> Text(Len(points)),
     avg |-> IF Len(points) > 0
             THEN Text(toFixed2(sumEnthalpy(points) \div Len(points)))
             ELSE Dash]

\* the chart and the two displays initializeChart leaves
initializeChart(points, chart) ==
    IF Len(points) = 0
    THEN [noData |-> "flex", canvas |-> "none", chart |-> chart]
    ELSE [noData |-> "none", canvas |-> "block",
          chart |-> [created |-> TRUE,
                     data |-> [k \in 1..Len(points) |-> points[k].enthalpy]]]

airVars == <<enthalpyData, temperatureDataPoints, pressureDataPoints, timeLabels, now>>

\* mutant: the history survives the reset
resetFormKeepsData ==
    /\ script = "script.js"
    /\ temperature' = NaN /\ pressure' = NaN
    /\ currentEnthalpyEl' = Dash
    /\ tempError' = "none" /\ pressError' = "none"
    /\ dataPoints' = dataPoints
    /\ dataPointsEl' = updateStats(dataPoints').count
    /\ avgEnthalpyEl' = updateStats(dataPoints').avg
    /\ LET c == initializeChart(dataPoints', enthalpyChart)
       IN  noDataDisplay' = c.noData /\ canvasDisplay' = c.canvas /\ enthalpyChart' = c.chart
    /\ notification' = Note("info", "reset")
    /\ UNCHANGED <<script, result>> /\ UNCHANGED airVars

resetForm ==
    /\ script = "script.js"
    /\ temperature' = NaN /\ pressure' = NaN
    /\ currentEnthalpyEl' = Dash
    /\ tempError' = "none" /\ pressError' = "none"
    /\ dataPoints' = <<>>
    /\ dataPointsEl' = updateStats(dataPoints').count
    /\ avgEnthalpyEl' = updateStats(dataPoints').avg
    /\ LET c == initializeChart(dataPoints', enthalpyChart)
       IN  noDataDisplay' = c.noData /\ canvasDisplay' = c.canvas /\ enthalpyChart' = c.chart
    /\ notification' = Note("info", "reset")
    /\ UNCHANGED <<script, result>> /\ UNCHANGED airVars

\* the submit listener
submitHandler ==
    /\ script = "script.js"
    /\ LET v == validateInputs(temperature, pressure) IN
       /\ tempError' = v.tempError
       /\ pressError' = v.pressError
       /\ IF Len(v.errors) > 0
          THEN /\ notification' = [Note("error", "validation") EXCEPT !.errors = v.errors]
               /\ UNCHANGED <<result, dataPoints, enthalpyChart, currentEnthalpyEl,
                              dataPointsEl, avgEnthalpyEl, canvasDisplay, noDataDisplay>>
          ELSE LET r == calculateEnthalpy(temperature.v, pressure.v) IN
               /\ result' = r
               /\ IF r.method = "error"
                  THEN /\ notification' = [Note("error", "range") EXCEPT !.error = r.error]
                       /\ UNCHANGED <<dataPoints, enthalpyChart, currentEnthalpyEl,
                                      dataPointsEl, avgEnthalpyEl, canvasDisplay,
                                      noDataDisplay>>
                  ELSE /\ currentEnthalpyEl' = Text(toFixed2(r.enthalpy))
                       /\ dataPoints' = Append(dataPoints,
                              [temperature |-> temperature.v, pressure |-> pressure.v,
                               pressureUsed |-> r.pressureUsed, enthalpy |-> r.enthalpy,
                               method |-> r.method])
                       /\ dataPointsEl' = updateStats(dataPoints').count
                       /\ avgEnthalpyEl' = updateStats(dataPoints').avg
                       /\ LET c == initializeChart(dataPoints', enthalpyChart)
                          IN  /\ noDataDisplay' = c.noData
                              /\ canvasDisplay' = c.canvas
                              /\ enthalpyChart' = c.chart
                       /\ notification' =
                              [Note("success", "calculated") EXCEPT
                                 !.value = toFixed2(r.enthalpy),
                                 !.pressureUsed = IF r.pressureUsed # pressure.v
                                                  THEN r.pressureUsed ELSE 0]
    /\ UNCHANGED <<script, temperature, pressure>> /\ UNCHANGED airVars

\* the page once script.js has loaded and DOMContentLoaded has run,
\* but for its two fields
loadedSteam ==
    /\ script = "script.js"
    /\ result = NoResult
    /\ dataPoints = <<>>
    /\ enthalpyChart = NoChart
    /\ enthalpyData = <<>> /\ temperatureDataPoints = <<>>
    /\ pressureDataPoints = <<>> /\ timeLabels = <<>>
    /\ now = 0
    /\ currentEnthalpyEl = Markup
    /\ dataPointsEl = updateStats(<<>>).count
    /\ avgEnthalpyEl = updateStats(<<>>).avg
    /\ tempError = "markup" /\ pressError = "markup"
    /\ canvasDisplay = initializeChart(<<>>, NoChart).canvas
    /\ noDataDisplay = initializeChart(<<>>, NoChart).noData
    /\ notification = Note("none", "none")

\* the two fields start empty
InitSteam == loadedSteam /\ temperature = NaN /\ pressure = NaN

----------------------------------------------------------------------------
(* part_000: the dry-air page *)

maxDataPoints == 50

\* a + b * T + c * T * T, in thousandths
cpDryAir(T) == 1003500 + 100 * T - (2 * T * T) \div 100

calculateEnthalpyAir(T) == cpDryAir(T) * T

\* (x / 1000).toFixed(2) of a value in thousandths of J/kg: hundredths of kJ/kg
toFixed2k(x) == (x + 5000) \div 10000

validateInput(value) == ~(isNaN(value) \/ value.v <= 0)

\* enthalpyData.reduce((a, b) => a + b, 0)
RECURSIVE sumData(_)
sumData(data) == IF data = <<>> THEN 0 ELSE data[1] + sumData(Tail(data))

\* the texts updateStats gives the three elements; an empty array has no
\* latest entry and 0 / 0 as its mean
updateStatsAir(data) ==
    IF Len(data) = 0
    THEN [current |-> NaNText, avg |-> NaNText, count |-> Text(0)]
    ELSE [current |-> Text(toFixed2k(data[Len(data)])),
          avg |-> Text(toFixed2k(sumData(data) \div Len(data))),
          count |-> Text(Len(data))]

\* the push of updateChart followed by its trim
pushTrim(array, x, length) ==
    IF length > maxDataPoints THEN Tail(Append(array, x)) ELSE Append(array, x)

\* the clock advances between two readings: every label is later than the last
updateChart(temp, press) ==
    LET enthalpy == calculateEnthalpyAir(temp)
        timestamp == now
        length == Len(enthalpyData) + 1
    IN  /\ enthalpyData' = pushTrim(enthalpyData, enthalpy, length)
        /\ temperatureDataPoints' = pushTrim(temperatureDataPoints, temp, length)
        /\ pressureDataPoints' = pushTrim(pressureDataPoints, press, length)
        /\ timeLabels' = pushTrim(timeLabels, timestamp, length)
        /\ now' = now + 1
        /\ canvasDisplay' = "block"
        /\ noDataDisplay' = "none"
        /\ enthalpyChart' = [created |-> TRUE, data |-> enthalpyData']
        /\ currentEnthalpyEl' = updateStatsAir(enthalpyData').current
        /\ avgEnthalpyEl' = updateStatsAir(enthalpyData').avg
        /\ dataPointsEl' = updateStatsAir(enthalpyData').count

submitHandlerAir ==
    /\ script = "part_000"
    /\ tempError' = IF validateInput(temperature) THEN "none" ELSE "block"
    /\ pressError' = IF validateInput(pressure) THEN "none" ELSE "block"
    /\ IF validateInput(temperature) /\ validateInput(pressure)
       THEN /\ updateChart(temperature.v, pressure.v)
            /\ notification' = [Note("success", "enthalpy") EXCEPT
                                  !.value = toFixed2k(calculateEnthalpyAir(temperature.v))]
       ELSE /\ notification' = Note("error", "fix input errors")
            /\ UNCHANGED airVars
            /\ UNCHANGED <<enthalpyChart, currentEnthalpyEl, dataPointsEl, avgEnthalpyEl,
                           canvasDisplay, noDataDisplay>>
    /\ UNCHANGED <<script, temperature, pressure, result, dataPoints>>

resetFormAir ==
    /\ script = "part_000"
    /\ temperature' = NaN /\ pressure' = NaN
    /\ tempError' = "none" /\ pressError' = "none"
    /\ enthalpyData' = <<>> /\ temperatureDataPoints' = <<>>
    /\ pressureDataPoints' = <<>> /\ timeLabels' = <<>>
    /\ enthalpyChart' = NoChart
    /\ canvasDisplay' = "none" /\ noDataDisplay' = "flex"
    /\ currentEnthalpyEl' = Dash
    /\ avgEnthalpyEl' = Dash
    /\ dataPointsEl' = Text(0)
    /\ notification' = Note("success", "reset")
    /\ UNCHANGED <<script, result, dataPoints, now>>

\* the page once part_000 has loaded: the script has written no element yet
InitAir ==
    /\ script = "part_000"
    /\ temperature = NaN /\ pressure = NaN
    /\ result = NoResult
    /\ dataPoints = <<>>
    /\ enthalpyChart = NoChart
    /\ enthalpyData = <<>> /\ temperatureDataPoints = <<>>
    /\ pressureDataPoints = <<>> /\ timeLabels = <<>>
    /\ now = 0
    /\ currentEnthalpyEl = Markup /\ dataPointsEl = Markup /\ avgEnthalpyEl = Markup
    /\ tempError = "markup" /\ pressError = "markup"
    /\ canvasDisplay = "markup" /\ noDataDisplay = "markup"
    /\ notification = Note("none", "none")

----------------------------------------------------------------------------
(* The page in use: the user edits the two fields, submits and resets *)

\* what the user types, per page
Temperatures ==
    IF script = "script.js"
    THEN {NaN, Num(-5), Num(0), Num(199), Num(200), Num(225), Num(600), Num(601)}
    ELSE {NaN, Num(-5), Num(0), Num(250), Num(300)}
Pressures ==
    IF script = "script.js"
    THEN {NaN, Num(-1), Num(0), Num(15), Num(90)}
    ELSE {NaN, Num(-1), Num(0), Num(101325)}

fieldsOnly == <<script, result, dataPoints, enthalpyChart, enthalpyData,
                temperatureDataPoints, pressureDataPoints, timeLabels, now,
                currentEnthalpyEl, dataPointsEl, avgEnthalpyEl, tempError, pressError,
                canvasDisplay, noDataDisplay, notification>>

InputTemperature ==
    /\ \E t \in Temperatures : temperature' = t
    /\ UNCHANGED pressure /\ UNCHANGED fieldsOnly

InputPressure ==
    /\ \E p \in Pressures : pressure' = p
    /\ UNCHANGED temperature /\ UNCHANGED fieldsOnly

Submit == Len(dataPoints) < MaxHist /\ submitHandler
SubmitAir == now < MaxHist /\ submitHandlerAir

Init == InitSteam \/ InitAir

Next == InputTemperature \/ InputPressure \/ Submit \/ resetForm \/ SubmitAir \/ resetFormAir

Spec == Init /\ [][Next]_vars

----------------------------------------------------------------------------
(* The rolling window: one valid query, recorded maxDataPoints + Extra times *)

InputWindow ==
    /\ temperature' = (IF script = "script.js" THEN Num(225) ELSE Num(10))
    /\ pressure' = (IF script = "script.js" THEN Num(15) ELSE Num(101325))
    /\ UNCHANGED fieldsOnly

SubmitWindow == Len(dataPoints) < maxDataPoints + Extra /\ submitHandler
SubmitAirWindow == now < maxDataPoints + Extra /\ submitHandlerAir

NextWindow == InputWindow \/ SubmitWindow \/ resetForm \/ SubmitAirWindow \/ resetFormAir

SpecWindow == Init /\ [][NextWindow]_vars

----------------------------------------------------------------------------
(* The estimator alone, over every whole query of the range *)

InitCalc ==
    /\ loadedSteam
    /\ \E T \in MinTemp..MaxTemp, P \in 0..MaxPressure :
          temperature = Num(T) /\ pressure = Num(P)

estimate ==
    /\ result' = calculateEnthalpy(temperature.v, pressure.v)
    /\ UNCHANGED <<script, temperature, pressure, dataPoints, enthalpyChart>>
    /\ UNCHANGED airVars
    /\ UNCHANGED <<currentEnthalpyEl, dataPointsEl, avgEnthalpyEl, tempError, pressError,
                   canvasDisplay, noDataDisplay, notification>>

SpecCalc == InitCalc /\ [][estimate]_vars

----------------------------------------------------------------------------
(* Properties *)

\* the level nearest to P, the lower one of two equidistant levels
Nearest(P) ==
    CHOOSE l \in Levels : \A m \in Levels :
        Abs(P - l) < Abs(P - m) \/ (Abs(P - l) = Abs(P - m) /\ l <= m)

Curve(P) == steamTableData[Nearest(P)]
Tmin(P) == Curve(P).temperatures[1]
Tmax(P) == Curve(P).temperatures[Len(Curve(P).temperatures)]
Samples(temps) == {temps[k] : k \in DOMAIN temps}

\* the level a result names, whether it is an estimate or an error
LevelOf(r) == IF r.method = "error" THEN r.error.closestPressure ELSE r.pressureUsed

Estimated == result.method \in {"exact", "interpolated"}

\* C1: the level findClosestPressure selects is a tabulated level at minimal
\* absolute distance from the requested pressure, the lower level when two are
\* equidistant; a requested pressure of 15 selects level 10.
C1_ClosestPressure ==
    result.method # "none" =>
        LET P == pressure.v
            used == LevelOf(result)
        IN  /\ used \in Levels
            /\ \A l \in Levels :
                  /\ Abs(P - used) <= Abs(P - l)
                  /\ Abs(P - used) = Abs(P - l) => used <= l
            /\ P = 15 => used = 10

C1_Witness ==
    /\ result.method = "exact"
    /\ pressure.v = 15
    /\ result.pressureUsed = 10

\* C2: a submission whose temperature lies strictly below the first or strictly
\* above the last temperature of the curve selected for the requested pressure
\* leaves the history as it was; when it reaches calculateEnthalpy, the call
\* throws the out-of-range error and no estimate is produced or displayed.
C2_OutOfRangeRecordsNothing ==
    [][(/\ submitHandler
        /\ ~isNaN(temperature) /\ ~isNaN(pressure)
        /\ \/ temperature.v < Tmin(pressure.v)
           \/ temperature.v > Tmax(pressure.v))
       => /\ dataPoints' = dataPoints
          /\ dataPointsEl' = dataPointsEl
          /\ currentEnthalpyEl' = currentEnthalpyEl
          /\ notification'.type = "error"
          /\ validateInputs(temperature, pressure).errors = <<>> =>
                /\ result'.method = "error"
                /\ result'.enthalpy = 0
                /\ result'.error = [temperature |-> temperature.v,
                                    closestPressure |-> Nearest(pressure.v),
                                    lo |-> Tmin(pressure.v), hi |-> Tmax(pressure.v)]
                /\ notification'.kind = "range"]_vars

C2_Witness ==
    /\ notification.kind = "range"
    /\ result.method = "error"
    /\ result.error.temperature > result.error.hi
    /\ Len(dataPoints) > 0

\* C3: the history of either page never holds more than maxDataPoints entries,
\* and the entries part_000 retains are the most recent ones, in recording order.
C3_HistoryWindow ==
    /\ Len(dataPoints) <= maxDataPoints
    /\ Len(enthalpyData) <= maxDataPoints
    /\ \A k \in DOMAIN timeLabels : timeLabels[k] = now - Len(timeLabels) + k - 1

\* part_000 alone: the four arrays stay aligned, hold at most maxDataPoints
\* entries, and hold the entries of the latest clock readings in order
WindowAir ==
    /\ Len(enthalpyData) <= maxDataPoints
    /\ Len(temperatureDataPoints) = Len(enthalpyData)
    /\ Len(pressureDataPoints) = Len(enthalpyData)
    /\ Len(timeLabels) = Len(enthalpyData)
    /\ \A k \in DOMAIN timeLabels : timeLabels[k] = now - Len(timeLabels) + k - 1

\* part_000 alone: a record adds one entry until the window is full, then
\* replaces the oldest
WindowAirStep ==
    [][(submitHandlerAir /\ validateInput(temperature) /\ validateInput(pressure))
       => /\ Len(enthalpyData') = (IF Len(enthalpyData) < maxDataPoints
                                   THEN Len(enthalpyData) + 1 ELSE maxDataPoints)
          /\ enthalpyData'[Len(enthalpyData')] = calculateEnthalpyAir(temperature.v)
          /\ Len(enthalpyData) = maxDataPoints =>
                \A k \in 1..(maxDataPoints - 1) : enthalpyData'[k] = enthalpyData[k + 1]]_vars

WindowAirFull == Len(enthalpyData) = maxDataPoints /\ now = maxDataPoints + Extra

\* C4: at the first and at the last temperature of the selected curve the
\* result is 'exact' and is the curve's first, respectively last, enthalpy.
C4_Boundary ==
    result.method # "none" =>
        LET c == Curve(pressure.v) IN
        /\ temperature.v = Tmin(pressure.v) =>
              result.method = "exact" /\ result.enthalpy = c.enthalpies[1]
        /\ temperature.v = Tmax(pressure.v) =>
              result.method = "exact" /\ result.enthalpy = c.enthalpies[Len(c.enthalpies)]

C4_Witness ==
    /\ result.method = "exact"
    /\ temperature.v = Tmax(pressure.v)
    /\ pressure.v = 70

\* C5: for a query within the range of the selected curve, the bracket is a
\* pair of adjacent samples with T1 <= query <= T2, or the result is the exact
\* match at a sample equal to the query.
C5_Bracket ==
    Estimated =>
        LET c == Curve(pressure.v)
            T == temperature.v
            d == result.interpolationData
        IN  \/ /\ result.method = "interpolated"
               /\ \E k \in 1..(Len(c.temperatures) - 1) :
                     /\ d.T1 = c.temperatures[k] /\ d.T2 = c.temperatures[k + 1]
                     /\ d.h1 = c.enthalpies[k] /\ d.h2 = c.enthalpies[k + 1]
               /\ d.T1 <= T /\ T <= d.T2
            \/ /\ result.method = "exact"
               /\ \E k \in DOMAIN c.temperatures :
                     c.temperatures[k] = T /\ result.enthalpy = c.enthalpies[k]

C5_Witness ==
    /\ result.method = "interpolated"
    /\ result.interpolationData.T1 < temperature.v
    /\ temperature.v < result.interpolationData.T2
    /\ result.interpolationData.T1 = 264

\* C6: an in-range query that is no sample temperature is 'interpolated', with
\* enthalpy h1 + ((T - T1) / (T2 - T1)) * (h2 - h1) over the recorded bracket
\* (to the thousandth the model keeps); calculateEnthalpy(225, 10) gives
\* method 'interpolated', pressureUsed 10 and enthalpy 2892.3.
C6_Interpolation ==
    (/\ result.method # "none"
     /\ temperature.v >= Tmin(pressure.v) /\ temperature.v <= Tmax(pressure.v)
     /\ temperature.v \notin Samples(Curve(pressure.v).temperatures))
    => LET T == temperature.v
           d == result.interpolationData
           exact == d.h1 * (d.T2 - d.T1) + (T - d.T1) * (d.h2 - d.h1)
       IN  /\ result.method = "interpolated"
           /\ d.T1 < T /\ T < d.T2
           /\ \E k \in 1..(Len(Curve(pressure.v).temperatures) - 1) :
                 /\ d.T1 = Curve(pressure.v).temperatures[k]
                 /\ d.T2 = Curve(pressure.v).temperatures[k + 1]
                 /\ d.h1 = Curve(pressure.v).enthalpies[k]
                 /\ d.h2 = Curve(pressure.v).enthalpies[k + 1]
           /\ result.enthalpy * (d.T2 - d.T1) <= exact
           /\ exact < (result.enthalpy + 1) * (d.T2 - d.T1)
           /\ (T = 225 /\ pressure.v = 10) =>
                 result.enthalpy = 2892300 /\ result.pressureUsed = 10

C6_Witness ==
    /\ temperature.v = 225 /\ pressure.v = 10
    /\ result.method = "interpolated"
    /\ result.enthalpy = 2892300
    /\ result.interpolationData = [T1 |-> 200, T2 |-> 250, h1 |-> 2827400, h2 |-> 2957200]

\* the statistics panel and the history of either page
statistics == <<dataPointsEl, avgEnthalpyEl, currentEnthalpyEl>>
history == <<dataPoints, enthalpyData, temperatureDataPoints, pressureDataPoints,
             timeLabels>>

\* C7: a reset leaves the history empty and the statistics at count 0 with no
\* average; a reset made right after a reset changes neither.
C7_ResetIdempotent ==
    [][(resetForm \/ resetFormAir)
       => /\ dataPoints' = <<>> /\ enthalpyData' = <<>>
          /\ temperatureDataPoints' = <<>> /\ pressureDataPoints' = <<>>
          /\ timeLabels' = <<>>
          /\ dataPointsEl' = Text(0) /\ avgEnthalpyEl' = Dash
          /\ notification.kind = "reset" =>
                statistics' = statistics /\ history' = history]_vars

C7_Witness ==
    /\ notification.kind = "reset"
    /\ enthalpyChart.created
    /\ dataPoints = <<>>
    /\ dataPointsEl = Text(0)

\* C8: a submission whose temperature or pressure is NaN, negative or zero is
\* rejected by the validation: the notification is the validation error, the
\* enthalpy calculation is not invoked and the history is unchanged.
C8_InvalidInputRejected ==
    [][((submitHandler \/ submitHandlerAir)
        /\ \/ isNaN(temperature) \/ temperature.v <= 0
           \/ isNaN(pressure) \/ pressure.v <= 0)
       => /\ notification'.type = "error"
          /\ notification'.kind \in {"validation", "fix input errors"}
          /\ result' = result
          /\ history' = history]_vars

C8_ZeroPressureRecorded ==
    /\ Len(dataPoints) > 0
    /\ dataPoints[Len(dataPoints)].pressure = 0

\* the sum of a sequence of numbers
RECURSIVE Total(_, _)
Total(f, n) == IF n = 0 THEN 0 ELSE f[n] + Total(f, n - 1)

\* C9: the count shown is the number of entries in the history, the average
\* shown is the mean of their enthalpies rounded to two decimals, and with an
\* empty history the average shown is the '-' marker.
C9_Statistics ==
    /\ script = "script.js" =>
          LET n == Len(dataPoints)
              S == Total([k \in 1..n |-> dataPoints[k].enthalpy], n)
          IN  /\ dataPointsEl = Text(n)
              /\ n = 0 => avgEnthalpyEl = Dash
              /\ n > 0 => /\ avgEnthalpyEl.kind = "number"
                          /\ Abs(10 * n * avgEnthalpyEl.v - S) <= 6 * n
    /\ (script = "part_000" /\ dataPointsEl # Markup) =>
          LET n == Len(enthalpyData)
              S == Total(enthalpyData, n)
          IN  /\ dataPointsEl = Text(n)
              /\ n = 0 => avgEnthalpyEl = Dash
              /\ n > 0 => /\ avgEnthalpyEl.kind = "number"
                          /\ Abs(10000 * n * avgEnthalpyEl.v - S) <= 5001 * n

C9_Witness ==
    /\ Len(dataPoints) = 2
    /\ dataPoints[1].enthalpy # dataPoints[2].enthalpy
    /\ avgEnthalpyEl.kind = "number"

\* C10: a query that passes the range check is 'exact' exactly when it equals
\* a sample temperature of the curve used; when it is interpolated the bracket
\* index is below length - 1, so temperatures[i + 1] and enthalpies[i + 1] are
\* samples of the curve.
C10_ExactIffSample ==
    Estimated =>
        LET c == steamTableData[result.pressureUsed]
            i == bracketFrom(c.temperatures, temperature.v, 0)
        IN  /\ result.method = "exact" <=> temperature.v \in Samples(c.temperatures)
            /\ result.method = "interpolated" =>
                  /\ i < Len(c.temperatures) - 1
                  /\ result.interpolationData.T1 = c.temperatures[i + 1]
                  /\ result.interpolationData.T2 = c.temperatures[i + 2]
                  /\ result.interpolationData.h2 = c.enthalpies[i + 2]

C10_Witness ==
    /\ result.method = "interpolated"
    /\ temperature.v = 599
    /\ result.interpolationData.T2 = 600

====
